---- MODULE Spec2Model ----
(***************************************************************************)
(* Model of the fluid-gradient generator: the Home page state              *)
(* (src/unnamed/part_001), the ControlPanel handlers                       *)
(* (src/components/control-panel.tsx) and the GradientCanvas component     *)
(* with its resize effect and its render effect                            *)
(* (src/components/gradient-canvas.tsx).                                   *)
(*                                                                         *)
(* Real numbers of the source are fixed-point numbers here: a value v is   *)
(* carried as the integer 1000*v ("milli") unless a definition says        *)
(* otherwise.  Pixel bytes are integers 0..255, as in a Uint8ClampedArray. *)
(***************************************************************************)
EXTENDS Integers, Sequences, FiniteSets, TLC

\* ------------------------------------------------------------------------
\* Bounds of the model
\* ------------------------------------------------------------------------
\* number of handler invocations explored after the mount
MaxOps == 2
\* number of distinct outcomes of the Math.random() sequence of one render
MaxGrainSeeds == 2

\* ------------------------------------------------------------------------
\* Fixed-point arithmetic
\* ------------------------------------------------------------------------
Abs(v) == IF v < 0 THEN -v ELSE v
Min(a, b) == IF a < b THEN a ELSE b
Max(a, b) == IF a > b THEN a ELSE b

\* 1000000 * e^(-k) for k = 0..14 (index k+1); 0 beyond
ExpTable == <<1000000, 367879, 135335, 49787, 18316, 6738, 2479, 912, 335,
              123, 45, 17, 6, 2, 1>>

\* Math.exp(-z) for z >= 0, z and the result in milli
ExpNeg(z) ==
  LET k  == z \div 1000
      f  == z % 1000
      t6 == 1000 - f \div 6
      t5 == 1000 - (f * t6) \div 5000
      t4 == 1000 - (f * t5) \div 4000
      t3 == 1000 - (f * t4) \div 3000
      t2 == 1000 - (f * t3) \div 2000
      t1 == 1000 - (f * t2) \div 1000
  IN  IF k >= Len(ExpTable) THEN 0
      ELSE (ExpTable[k + 1] * t1 + 500000) \div 1000000

\* Math.sin(a), a in milli-radians (a >= 0), result in milli
\* (Bhaskara's rational approximation on each half period)
Sin(a) ==
  LET r == a % 6283
      h == IF r >= 3142 THEN r - 3142 ELSE r
      p == h * (3142 - h)
      s == (((16 * p) \div 100) * 1000) \div ((49348022 - 4 * p) \div 100)
  IN  IF r >= 3142 THEN -s ELSE s

RECURSIVE SqrtBetween(_, _, _)
SqrtBetween(v, lo, hi) ==
  IF hi - lo <= 1 THEN lo
  ELSE LET mid == (lo + hi) \div 2
       IN  IF mid * mid <= v THEN SqrtBetween(v, mid, hi)
           ELSE SqrtBetween(v, lo, mid)
\* floor(Math.sqrt(v)) for an integer 0 <= v < 2^16
Sqrt(v) == SqrtBetween(v, 0, 256)

\* storing a number into a Uint8ClampedArray: clamp to 0..255, round to
\* nearest, ties to even; v in milli
ToUint8Clamp(v) ==
  LET q == v \div 1000
      r == v % 1000
  IN  IF v <= 0 THEN 0
      ELSE IF v >= 255000 THEN 255
      ELSE IF r < 500 THEN q
      ELSE IF r > 500 THEN q + 1
      ELSE IF q % 2 = 0 THEN q ELSE q + 1

\* ------------------------------------------------------------------------
\* Colors
\* ------------------------------------------------------------------------
\* A color string is the tuple of its characters after the first one (the
\* "#"): a hex digit is its value 0..15, any other character is 16.
\* "#RRGGBB" is the tuple of the values of its six digits.
Hex(a, b, c, d, e, f) == <<a, b, c, d, e, f>>

\* the initial color stops "#FF4500", "#FF0000", "#000000"
InitialColors ==
  << Hex(15, 15, 4, 5, 0, 0), Hex(15, 15, 0, 0, 0, 0), Hex(0, 0, 0, 0, 0, 0) >>
\* the initial ribbon color "#000000"
InitialRibbonColor == Hex(0, 0, 0, 0, 0, 0)

\* the colors the pickers and randomColor() deliver in the model:
\* "#1E90FF", "#FFFFFF"
Palette == << Hex(1, 14, 9, 0, 15, 15), Hex(15, 15, 15, 15, 15, 15) >>

\* NaN, as a number that no byte and no parsed pair of digits is
NaN == 0 - 1

\* hex.slice(from, to) over the characters after the "#": the characters
\* from .. to that the string has
Slice(hex, from, to) ==
  IF from > Len(hex) THEN << >> ELSE SubSeq(hex, from, Min(to, Len(hex)))

\* Number.parseInt(s, 16) of a slice of at most two characters: the
\* longest prefix of hex digits, NaN when there is none
ParseInt16(s) ==
  IF Len(s) = 0 THEN NaN
  ELSE IF s[1] > 15 THEN NaN
  ELSE IF Len(s) = 1 THEN s[1]
  ELSE IF s[2] > 15 THEN s[1]
  ELSE 16 * s[1] + s[2]

\* hexToRgb: parseInt of the digit pairs at 1..3, 3..5, 5..7, base 16
hexToRgb(hex) ==
  << ParseInt16(Slice(hex, 1, 2)), ParseInt16(Slice(hex, 3, 4)),
     ParseInt16(Slice(hex, 5, 6)) >>

\* glowBlend(c1, c2, t, glow): c1, c2 byte triples that are present,
\* t and glow in milli; the result channels are in milli
glowBlend(c1, c2, t, glow) ==
  LET g == (ExpNeg(((4 * (t - 500)) * (4 * (t - 500))) \div 1000) * glow * 255)
             \div 1000
      ch(k) == Min(255000, c1[k] * (1000 - t) + c2[k] * t + g)
  IN  << ch(1), ch(2), ch(3) >>

\* an interpolation that clamps idx to n - 2 and leaves frac as computed
interpolateKeepsFrac(colorArr, t, glow) ==
  LET n      == Len(colorArr)
      scaled == t * (n - 1)
      idx0   == scaled \div 1000
      frac   == scaled - 1000 * idx0
      idx    == IF idx0 >= n - 1 THEN n - 2 ELSE idx0
  IN  IF n = 0 THEN <<0, 0, 0>>
      ELSE IF n = 1
      THEN << 1000 * colorArr[1][1], 1000 * colorArr[1][2],
              1000 * colorArr[1][3] >>
      ELSE glowBlend(colorArr[idx + 1], colorArr[idx + 2], frac, glow)

\* interpolateMultiColorGlow(colorArr, t, glow); t, glow and the result
\* channels in milli
interpolateMultiColorGlow(colorArr, t, glow) ==
  LET n      == Len(colorArr)
      scaled == t * (n - 1)
      idx0   == scaled \div 1000
      frac0  == scaled - 1000 * idx0
      low    == idx0 < 0
      idx1   == IF low THEN 0 ELSE idx0
      frac1  == IF low THEN 0 ELSE frac0
      high   == idx1 >= n - 1
      idx    == IF high THEN n - 2 ELSE idx1
      frac   == IF high THEN 1000 ELSE frac1
  IN  IF n = 0 THEN <<0, 0, 0>>
      ELSE IF n = 1
      THEN << 1000 * colorArr[1][1], 1000 * colorArr[1][2],
              1000 * colorArr[1][3] >>
      ELSE glowBlend(colorArr[idx + 1], colorArr[idx + 2], frac, glow)

\* ------------------------------------------------------------------------
\* Noise field
\* ------------------------------------------------------------------------
\* noise2D.current(a, b) of the instance inst: a value in [-1, 1] that is
\* fixed by the instance and the sample point (a, b, result in milli).
\* createNoise2D() is a library call; an instance here is a number that
\* selects one such field.
NoiseAt(inst, a, b) ==
  (((inst * 13 + (a \div 40) * 7 + (b \div 40) * 11) % 21) - 10) * 100

\* ------------------------------------------------------------------------
\* Base pass (gradient and ribbon), one pixel
\* ------------------------------------------------------------------------
\* The fields of the ribbon at pixel (x, y) of a width x height frame:
\* mainDist, ribbon (occupancy), fade, gradT, highlight (milli; highlight in
\* milli color units)
RibbonField(x, y, width, height, inst) ==
  LET nx         == (1000 * x) \div width
      ny         == (1000 * y) \div height
      diag       == (nx + (1000 - ny)) \div 2
      mainOff    == (60 * Sin((ny * 3770) \div 1000)) \div 1000
                      + (100 * NoiseAt(inst, nx * 2, ny * 2)) \div 1000
      mainDist   == Abs(mainOff)
      mainBand   == ExpNeg(mainDist * 32)
      branchOff(b) ==
        mainOff
          + (80 * Sin((ny * (3456 + 628 * b)) \div 1000 + 1200 * b)) \div 1000
          + (50 * NoiseAt(inst, nx * 3 + 12000 * b, ny * 3 + 12000 * b))
              \div 1000
      branchBand == (ExpNeg(Abs(branchOff(1)) * 40) * 700) \div 1000
                      + (ExpNeg(Abs(branchOff(2)) * 40) * 700) \div 1000
      ribbon     == Min(1000, mainBand + branchBand)
      dx2        == 2 * x - width
      dy2        == 2 * y - height
      radius     == 5 * Sqrt(((dx2 * dx2 + dy2 * dy2) * 40000)
                               \div (width * width + height * height))
      gradT      == Max(0, Min(1000, (diag * 700 + radius * 300) \div 1000))
      fade       == ExpNeg(mainDist * 12)
      highlight  ==
        ((((ExpNeg(((3 * (ny - 180)) * (3 * (ny - 180))) \div 1000)
              * Abs(Sin((nx * 6283) \div 1000 + gradT * 2))) \div 1000)
            * 28) * ribbon) \div 1000
  IN  [mainDist |-> mainDist, ribbon |-> ribbon, fade |-> fade,
       gradT |-> gradT, highlight |-> highlight]

\* a channel whose ribbon blend is not faded toward the background
ShadeChannelNoFade(f, bgColor, ribbonColorRgb, k) ==
  Min(255000, (bgColor[k] * (1000 - f.ribbon)
                 + 1000 * ribbonColorRgb[k] * f.ribbon) \div 1000
               + f.highlight)

\* Channel k of a pixel with the ribbon fields f over the background
\* bgColor: ribbon blend, fade, highlight (milli)
ShadeChannel(f, bgColor, ribbonColorRgb, k) ==
  LET blend == (bgColor[k] * (1000 - f.ribbon)
                  + 1000 * ribbonColorRgb[k] * f.ribbon) \div 1000
      faded == (blend * f.fade + bgColor[k] * (1000 - f.fade)) \div 1000
  IN  Min(255000, faded + f.highlight)

\* r, g, b of a pixel with the ribbon fields f over the background bgColor
ShadeOver(f, bgColor, ribbonColorRgb) ==
  << ShadeChannel(f, bgColor, ribbonColorRgb, 1),
     ShadeChannel(f, bgColor, ribbonColorRgb, 2),
     ShadeChannel(f, bgColor, ribbonColorRgb, 3) >>

\* bgColor = interpolateMultiColorGlow(rgbColors, gradT, 0.18), then the
\* blend over it
Shade(f, rgbColors, ribbonColorRgb) ==
  ShadeOver(f, interpolateMultiColorGlow(rgbColors, f.gradT, 180),
            ribbonColorRgb)

\* The color of pixel (x, y) before it is stored (channels in milli):
\* background, ribbon blend, fade, highlight
PixelColor(x, y, width, height, inst, rgbColors, ribbonColorRgb) ==
  Shade(RibbonField(x, y, width, height, inst), rgbColors, ribbonColorRgb)

\* A frame buffer (ImageData.data) of a width x height frame: pixel number
\* y * width + x carries the four bytes <<R, G, B, A>>.
Pixels(width, height) == 0 .. (width * height - 1)

\* A typed array holds the values written to it: the function f with
\* every element evaluated
Stored(f) == f @@ << >>

\* data[i] = r, data[i + 1] = g, data[i + 2] = b, data[i + 3] = 255
StoreColor(c) ==
  << ToUint8Clamp(c[1]), ToUint8Clamp(c[2]), ToUint8Clamp(c[3]), 255 >>

\* The main rendering loop: data after the base pass
BasePass(width, height, inst, rgbColors, ribbonColorRgb) ==
  Stored([p \in Pixels(width, height) |->
     StoreColor(PixelColor(p % width, p \div width, width, height, inst,
                           rgbColors, ribbonColorRgb))])

\* ------------------------------------------------------------------------
\* Glass stripe pass
\* ------------------------------------------------------------------------
numStripes == 28

\* gap = Math.max(2, Math.round(stripeWidth * 0.18)), stripeWidth = width / 28;
\* the blur radius of both blurs is the same expression
Gap(width) == Max(2, (18 * width + 1400) \div 2800)
BlurRadius(width) == Max(2, (18 * width + 1400) \div 2800)

\* Math.round(i * stripeWidth): first column of the left gap of stripe i
GapStart(i, width) == (2 * i * width + 28) \div 56
\* xStart = Math.round(i * stripeWidth + gap)
XStart(i, width) == (2 * i * width + 56 * Gap(width) + 28) \div 56
\* xEnd = Math.round((i + 1) * stripeWidth - gap)
XEnd(i, width) == (2 * (i + 1) * width - 56 * Gap(width) + 28) \div 56

\* The blur of pixel (x, y): Math.round(0.3 * data + 0.7 * mean of the
\* 2 * radius + 1 pixels around it in its row), columns clamped to the
\* frame; the pixels are read from data itself.  Alpha is left alone.
BlurPixel(data, x, y, width, radius) ==
  LET count == 2 * radius + 1
      p     == y * width + x
      Px(bx) == data[y * width + Max(0, Min(width - 1, x + bx))]
      Sum[bx \in (-radius - 1) .. radius] ==
        IF bx < -radius THEN << 0, 0, 0 >>
        ELSE LET s == Sum[bx - 1]
                 c == Px(bx)
             IN  << s[1] + c[1], s[2] + c[2], s[3] + c[3] >>
      sum   == Sum[radius]
      Blurred(k) ==
        (3 * data[p][k] * count + 7 * sum[k] + 5 * count) \div (10 * count)
  IN  << Blurred(1), Blurred(2), Blurred(3), data[p][4] >>

\* The box blur of the columns from, from + 1, ... in place, in loop order
\* (columns left to right, rows top to bottom), after its first n pixels:
\* each pixel is computed from the buffer as the pixels before it left it.
\* Columns outside the frame are skipped.
RECURSIVE BlurColumns(_, _, _, _, _, _)
BlurColumns(data, from, n, width, height, radius) ==
  IF n = 0 THEN data
  ELSE LET prev == BlurColumns(data, from, n - 1, width, height, radius)
           x    == from + (n - 1) \div height
           y    == (n - 1) % height
       IN  IF x < 0 \/ x >= width THEN prev
           ELSE [prev EXCEPT ![y * width + x] =
                                BlurPixel(prev, x, y, width, radius)]

\* blurGap(xStart, width): the gap columns gapStart .. gapStart + gap - 1
blurGap(data, gapStart, gap, width, height) ==
  BlurColumns(data, gapStart, gap * height, width, height, BlurRadius(width))

\* The per-column terms of the displacement of column x of the stripe
\* xStart .. xEnd - 1: edgeAlpha, srcX, reflectX (0 - 1 when the column is
\* in neither edge zone), edgeBlend
StripeColumn(x, xStart, xEnd, width) ==
  LET dist2      == Abs(2 * x - (xStart + xEnd))
      ratio      == (dist2 * 2800000) \div (18 * width)
      edgeAlpha  == ExpNeg((ratio * ratio) \div 1000)
      maxShift   == (220 * width) \div 28
      shift      == (((Sin((3142 * (x - xStart)) \div (xEnd - xStart))
                         * maxShift) \div 1000) * edgeAlpha) \div 1000
      srcX       == Max(0, Min(width - 1, x + (shift + 500) \div 1000))
      reach      == (7 * width + 140) \div 280
      reflectStrength == Max(0, 1000 - (28000 * dist2) \div width)
      reflectX   == IF (x - xStart) * 2800 < 18 * width
                    THEN Min(xEnd - 1, x + reach)
                    ELSE IF (xEnd - x) * 2800 < 18 * width
                    THEN Max(xStart, x - reach)
                    ELSE 0 - 1
      edgeBlend  == (((550 * reflectStrength) \div 1000) * edgeAlpha) \div 1000
  IN  [edgeAlpha |-> edgeAlpha, srcX |-> srcX, reflectX |-> reflectX,
       edgeBlend |-> edgeBlend]

\* Channel k of a pixel of the stripe: the displaced sample src mixed with
\* the reflected sample, blended over the pixel dst of data
CompositeChannel(dst, src, reflect, edgeBlend, alpha, k) ==
  LET final == (src[k] * (1000 - edgeBlend) + reflect[k] * edgeBlend + 500)
                 \div 1000
  IN  (final * alpha + dst[k] * (1000 - alpha) + 500) \div 1000

\* a compositing that also copies the alpha byte of the displaced sample
CompositeBlendCopiesAlpha(dst, src, reflect, edgeBlend, alpha) ==
  << CompositeChannel(dst, src, reflect, edgeBlend, alpha, 1),
     CompositeChannel(dst, src, reflect, edgeBlend, alpha, 2),
     CompositeChannel(dst, src, reflect, edgeBlend, alpha, 3), src[4] >>

\* the four bytes written to data at dstIdx
CompositeBlend(dst, src, reflect, edgeBlend, alpha) ==
  << CompositeChannel(dst, src, reflect, edgeBlend, alpha, 1),
     CompositeChannel(dst, src, reflect, edgeBlend, alpha, 2),
     CompositeChannel(dst, src, reflect, edgeBlend, alpha, 3), dst[4] >>

\* baseAlpha from the luminance of the displaced sample, alpha =
\* edgeAlpha * baseAlpha, then the three channels; alpha is left alone
CompositeSample(dst, src, reflect, c) ==
  CompositeBlend(dst, src, reflect, c.edgeBlend,
     (c.edgeAlpha
        * (320 + (320 * (765 - (src[1] + src[2] + src[3]))) \div 765))
       \div 1000)

\* The pixel of a stripe column with the terms c in the row that starts at
\* index row: the displaced and the reflected sample are read from srcData
\* (the reflected one is the displaced one outside the edge zones)
CompositeColumn(dst, srcData, row, c) ==
  CompositeSample(dst, srcData[row + c.srcX],
                  srcData[row + (IF c.reflectX < 0 THEN c.srcX
                                 ELSE c.reflectX)], c)

\* The bytes written to pixel (x, y) by the displacement, reflection and
\* compositing of one stripe: the displaced and the reflected sample come
\* from srcData, the result is blended over the pixel of data
CompositePixel(data, srcData, x, y, xStart, xEnd, width) ==
  CompositeColumn(data[y * width + x], srcData, y * width,
                  StripeColumn(x, xStart, xEnd, width))

\* The displacement loop of one stripe after its first n pixels (columns
\* left to right, rows top to bottom)
RECURSIVE Composite(_, _, _, _, _, _, _)
Composite(data, srcData, xStart, xEnd, n, width, height) ==
  IF n = 0 THEN data
  ELSE LET prev == Composite(data, srcData, xStart, xEnd, n - 1, width,
                             height)
           x    == xStart + (n - 1) \div height
           y    == (n - 1) % height
       IN  [prev EXCEPT ![y * width + x] =
                          CompositePixel(prev, srcData, x, y, xStart, xEnd,
                                         width)]

\* an iteration that blurs its two gaps before it tests whether the stripe
\* has columns at all
StripeBlursGapsFirst(data, srcData, i, width, height) ==
  LET gap    == Gap(width)
      xStart == XStart(i, width)
      xEnd   == XEnd(i, width)
      gapL   == blurGap(data, GapStart(i, width), gap, width, height)
      gapR   == blurGap(gapL, xEnd, gap, width, height)
      band   == BlurColumns(gapR, xStart, (xEnd - xStart) * height, width,
                            height, BlurRadius(width))
  IN  IF xEnd <= xStart THEN gapR
      ELSE Composite(band, srcData, xStart, xEnd, (xEnd - xStart) * height,
                     width, height)

\* Iteration i of the stripe loop
Stripe(data, srcData, i, width, height) ==
  LET gap    == Gap(width)
      xStart == XStart(i, width)
      xEnd   == XEnd(i, width)
      gapL   == blurGap(data, GapStart(i, width), gap, width, height)
      gapR   == blurGap(gapL, xEnd, gap, width, height)
      band   == BlurColumns(gapR, xStart, (xEnd - xStart) * height, width,
                            height, BlurRadius(width))
  IN  IF xEnd <= xStart THEN data
      ELSE Composite(band, srcData, xStart, xEnd, (xEnd - xStart) * height,
                     width, height)

\* The stripe loop after the stripes order[1], ..., order[k]; every
\* iteration works on the width * height pixels the one before it left
RECURSIVE StripeLoop(_, _, _, _, _, _)
StripeLoop(data, srcData, order, k, width, height) ==
  IF k = 0 THEN data
  ELSE LET prev == StripeLoop(data, srcData, order, k - 1, width, height)
       IN  IF DOMAIN prev # Pixels(width, height) THEN prev
           ELSE Stripe(prev, srcData, order[k], width, height)

\* for (let i = 0; i < numStripes; i++)
LoopOrder == [k \in 1..numStripes |-> k - 1]

StripePass(data, srcData, width, height) ==
  StripeLoop(data, srcData, LoopOrder, numStripes, width, height)

\* ------------------------------------------------------------------------
\* Grain
\* ------------------------------------------------------------------------
\* grain amounts the slider delivers in the model, in percent (the slider
\* runs from 0 to 1 in steps of 0.01)
GrainAmounts == {0, 100}

\* Math.random() of the draw for pixel p in the random sequence seed, milli
Random(seed, p) == (seed * 389 + p * 617) % 1000

\* a grain that ignores grainAmount: (Math.random() - 0.5) * 50 always
GrainUnscaled(seed, p, grainAmount) ==
  ((Random(seed, p) - 500) * 100) \div 2

\* grain = (Math.random() - 0.5) * grainAmount * 50 when grainAmount > 0,
\* else 0; grainAmount in percent, the result in milli
Grain(seed, p, grainAmount) ==
  IF grainAmount > 0
  THEN ((Random(seed, p) - 500) * grainAmount) \div 2
  ELSE 0

\* window.grainMap as the main loop leaves it
GrainMap(width, height, seed, grainAmount) ==
  Stored([p \in Pixels(width, height) |-> Grain(seed, p, grainAmount)])

\* data[i] = Math.max(0, Math.min(255, data[i] + grain)), stored as a byte
GrainByte(byte, grain) ==
  ToUint8Clamp(Max(0, Min(255000, 1000 * byte + grain)))

\* a grain loop that adds the grain to R alone
GrainPassRedOnly(data, grainMap) ==
  Stored([p \in DOMAIN data |->
     << GrainByte(data[p][1], grainMap[p]), data[p][2], data[p][3],
        data[p][4] >>])

\* the grain loop: grain added to R, G and B of every pixel
GrainPass(data, grainMap) ==
  Stored([p \in DOMAIN data |->
     << GrainByte(data[p][1], grainMap[p]), GrainByte(data[p][2], grainMap[p]),
        GrainByte(data[p][3], grainMap[p]), data[p][4] >>])

\* ------------------------------------------------------------------------
\* State
\* ------------------------------------------------------------------------
VARIABLES
  colors,           \* Home: the color stops (hex strings)
  grainAmount,      \* Home: grain amount, percent
  verticalStripes,  \* Home: stripe toggle
  ribbonColor,      \* Home: ribbon color (hex string)
  canvasKey,        \* Home: key of the mounted GradientCanvas
  container,        \* size <<width, height>> of the canvas' parent element
  dimensions,       \* GradientCanvas: the dimensions state
  noise2D,          \* GradientCanvas: the noise instance of the mount
  canvas,           \* the canvas element: width, height and bitmap
  effect,           \* the locals of the last run of the render effect
  ops,              \* number of handlers run since the mount
  call              \* a function of the canvas applied on its own: the
                    \* function, its arguments and what it returned

pageVars == << colors, grainAmount, verticalStripes, ribbonColor, canvasKey,
               container, dimensions, noise2D, canvas, effect, ops >>

vars == << pageVars, call >>

\* no function was applied on its own
NoCall == [fn |-> "none"]

\* sizes <<width, height>> of the container as getBoundingClientRect()
\* reports them (milli pixels: the rectangle has fractional sides): the
\* empty one, one that gives every stripe an interior of two columns, and
\* one of that width that is half a pixel high
ContainerSizes == { <<0, 0>>, <<168000, 1000>>, <<168000, 500>> }

\* the bitmap of a canvas whose width or height was just set: transparent
\* black
Blank(width, height) ==
  Stored([p \in Pixels(width, height) |-> <<0, 0, 0, 0>>])

\* a canvas element after canvas.width = width; canvas.height = height:
\* the attributes are unsigned longs, the assignment drops the fraction
SizedCanvas(size) ==
  [width |-> size[1] \div 1000, height |-> size[2] \div 1000,
   pixels |-> Blank(size[1] \div 1000, size[2] \div 1000)]

\* no run of the render effect got past its guard yet
NoEffect ==
  [runs |-> 0, width |-> 0, height |-> 0, ribbonColorRgb |-> <<0, 0, 0>>,
   stripes |-> FALSE, base |-> <<>>, srcData |-> <<>>, striped |-> <<>>,
   grainMap |-> <<>>, fault |-> FALSE]

\* hexToRgb over the color stops
RgbColors(cols) == Stored([k \in 1..Len(cols) |-> hexToRgb(cols[k])])

\* The render's buffers when the grain loop runs on the buffer striped
Grained(srcData, striped, grainMap) ==
  [srcData |-> srcData, striped |-> striped,
   data |-> GrainPass(striped, grainMap)]

\* The render's buffers when no grain loop runs on the buffer striped
Ungrained(srcData, striped) ==
  [srcData |-> srcData, striped |-> striped, data |-> striped]

\* The passes in another order: the grain is added to the buffer of the
\* main loop first, and the stripe loop runs on the grained buffer.
FinishRenderGrainFirst(cv, base, grainMap, stripes) ==
  IF stripes
  THEN Ungrained(cv.pixels,
                 StripePass(GrainPass(base, grainMap), cv.pixels, cv.width,
                            cv.height))
  ELSE Ungrained(<< >>, GrainPass(base, grainMap))

\* The passes of the render effect after the main loop, on the canvas cv:
\* with stripes, srcData is read from the canvas, the stripe loop runs on
\* data, the grain is added and the result is put on the canvas; without,
\* the grain is added and the result is put on the canvas.
FinishRender(cv, base, grainMap, stripes) ==
  IF stripes
  THEN Grained(cv.pixels, StripePass(base, cv.pixels, cv.width, cv.height),
               grainMap)
  ELSE Grained(<< >>, base, grainMap)

\* ctx.putImageData(imageData, 0, 0) at the end of a run of the effect:
\* the canvas, and the locals of the run
PutImageData(cv, eff, ribbonRgb, stripes, base, grainMap, out) ==
  << [cv EXCEPT !.pixels = out.data],
     [runs |-> eff.runs + 1, width |-> cv.width, height |-> cv.height,
      ribbonColorRgb |-> ribbonRgb, stripes |-> stripes,
      base |-> base, srcData |-> out.srcData, striped |-> out.striped,
      grainMap |-> grainMap, fault |-> FALSE] >>

\* The effect from the end of its main loop (data = base, window.grainMap
\* = grainMap) on
AfterMainLoop(cv, eff, ribbonRgb, stripes, base, grainMap) ==
  PutImageData(cv, eff, ribbonRgb, stripes, base, grainMap,
               FinishRender(cv, base, grainMap, stripes))

\* The render effect run in a component whose props are cols, ribbon,
\* grain, stripes, whose state is dims and inst, on the canvas cv; seed is
\* the Math.random() sequence it draws.  The result is the pair of the
\* canvas and the effect's locals.  The guard tests dimensions; the frame
\* is that of the canvas, and ctx.createImageData(width, height) throws an
\* IndexSizeError when one of the two is 0 (fault).
RenderEffect(cv, eff, dims, inst, cols, ribbon, grain, stripes, seed) ==
  IF dims[1] = 0 \/ dims[2] = 0 THEN << cv, eff >>
  ELSE IF cv.width = 0 \/ cv.height = 0
  THEN << cv, [eff EXCEPT !.fault = TRUE] >>
  ELSE AfterMainLoop(cv, eff, hexToRgb(ribbon), stripes,
          BasePass(cv.width, cv.height, inst, RgbColors(cols),
                   hexToRgb(ribbon)),
          GrainMap(cv.width, cv.height, seed, grain))

\* A commit whose render effect draws a new noise instance on every run
\* (createNoise2D() called in the effect instead of kept in the ref).
CommitFreshNoise(cv, dims, cols, newColors, ribbon, grain, stripes, seed) ==
  IF newColors \/ dims # dimensions \/ grain # grainAmount
       \/ stripes # verticalStripes
  THEN RenderEffect(cv, effect, dims, noise2D + effect.runs, cols, ribbon,
                    grain, stripes, seed)
  ELSE << cv, effect >>

\* The commit of a GradientCanvas that stays mounted: the render effect
\* runs when one of its dependencies (dimensions.width, dimensions.height,
\* colors, grainAmount, verticalStripes) changed; colors is compared by
\* identity, so every setColors call (newColors) counts as a change.
Commit(cv, dims, cols, newColors, ribbon, grain, stripes, seed) ==
  IF newColors \/ dims # dimensions \/ grain # grainAmount
       \/ stripes # verticalStripes
  THEN RenderEffect(cv, effect, dims, noise2D, cols, ribbon, grain, stripes,
                    seed)
  ELSE << cv, effect >>

\* The mount of a GradientCanvas with a fresh noise instance inst: the
\* resize effect sizes the canvas and sets dimensions, the render effect
\* returns at its guard (dimensions are 0) and runs again after the
\* dimensions changed.
Mount(size, inst, cols, ribbon, grain, stripes, seed) ==
  IF size = <<0, 0>> THEN << SizedCanvas(size), NoEffect >>
  ELSE RenderEffect(SizedCanvas(size), NoEffect, size, inst, cols, ribbon,
                    grain, stripes, seed)

\* seeds of the random sequences a render may draw: grain is drawn only
\* when grainAmount > 0
Seeds(grain) == IF grain > 0 THEN 1..MaxGrainSeeds ELSE {1}

\* generateRandomPalette(n) in the model: n colors of the palette, in turn
RandomPalette(n, first) ==
  [k \in 1..n |-> Palette[((first + k) % Len(Palette)) + 1]]

\* the canvas and the effect's locals after the first mount are those of r
FirstRendered(r) == canvas = r[1] /\ effect = r[2]

Init ==
  /\ colors = InitialColors
  /\ grainAmount = 0
  /\ verticalStripes = FALSE
  /\ ribbonColor = InitialRibbonColor
  /\ canvasKey = 1
  /\ container \in ContainerSizes
  /\ dimensions = container
  /\ noise2D = 1
  /\ FirstRendered(Mount(container, 1, InitialColors, InitialRibbonColor,
                         0, FALSE, 1))
  /\ ops = 0
  /\ call = NoCall

\* ------------------------------------------------------------------------
\* Handlers
\* ------------------------------------------------------------------------
\* The page is mounted: an error thrown by an effect that no error
\* boundary catches unmounts the tree, and no handler runs afterwards.
Mounted == ~effect.fault

\* after a handler the canvas and the effect's locals are those of r, the
\* outcome of the commit or the mount the handler caused
Rendered(r) == canvas' = r[1] /\ effect' = r[2]

\* ControlPanel.handleColorChange(idx, color)
handleColorChange(idx, color, seed) ==
  /\ Mounted /\ ops < MaxOps
  /\ colors' = [colors EXCEPT ![idx] = color]
  /\ Rendered(Commit(canvas, dimensions, colors', TRUE, ribbonColor,
                    grainAmount, verticalStripes, seed))
  /\ ops' = ops + 1
  /\ UNCHANGED call
  /\ UNCHANGED << grainAmount, verticalStripes, ribbonColor, canvasKey,
                  container, dimensions, noise2D >>

\* n.toString(16).padStart(2, "0") of a byte n
ToHex2(n) == << n \div 16, n % 16 >>

\* getComplementaryColor(hex) of a color of six hexadecimal digits: the
\* channels are parsed, the hue is turned by half a turn at the same
\* saturation and lightness, and the channels are rounded and written as
\* two digits each.  Half a turn of the hue swaps the largest and the
\* smallest channel and reflects the middle one between them (a gray has
\* saturation 0 and stays), so each channel c becomes max + min - c, an
\* integer that Math.round leaves as it is.
getComplementaryColor(hex) ==
  LET r  == ParseInt16(Slice(hex, 1, 2))
      g  == ParseInt16(Slice(hex, 3, 4))
      b  == ParseInt16(Slice(hex, 5, 6))
      mm == Max(r, Max(g, b)) + Min(r, Min(g, b))
  IN  ToHex2(mm - r) \o ToHex2(mm - g) \o ToHex2(mm - b)

\* ControlPanel.handleAddColor(): randomColor() is replaced by the
\* complement of the last stop whenever there is a stop
handleAddColor(seed) ==
  /\ Mounted /\ ops < MaxOps
  /\ colors' = Append(colors, IF Len(colors) > 0
                              THEN getComplementaryColor(colors[Len(colors)])
                              ELSE Palette[1])
  /\ Rendered(Commit(canvas, dimensions, colors', TRUE, ribbonColor,
                    grainAmount, verticalStripes, seed))
  /\ ops' = ops + 1
  /\ UNCHANGED call
  /\ UNCHANGED << grainAmount, verticalStripes, ribbonColor, canvasKey,
                  container, dimensions, noise2D >>

\* colors.filter((_, i) => i !== idx), idx counted from 1
WithoutStop(cols, idx) ==
  SubSeq(cols, 1, idx - 1) \o SubSeq(cols, idx + 1, Len(cols))

\* a removal without the test of the length
RemoveColorAlways(idx, seed) ==
  /\ Mounted /\ ops < MaxOps
  /\ colors' = WithoutStop(colors, idx)
  /\ Rendered(Commit(canvas, dimensions, colors', TRUE, ribbonColor,
                    grainAmount, verticalStripes, seed))
  /\ ops' = ops + 1
  /\ UNCHANGED call
  /\ UNCHANGED << grainAmount, verticalStripes, ribbonColor, canvasKey,
                  container, dimensions, noise2D >>

\* ControlPanel.handleRemoveColor(idx): returns before setColors when there
\* are two stops or fewer, and then nothing is rendered
handleRemoveColor(idx, seed) ==
  /\ Mounted /\ ops < MaxOps
  /\ IF Len(colors) <= 2
     THEN UNCHANGED << colors, canvas, effect >>
     ELSE /\ colors' = WithoutStop(colors, idx)
          /\ Rendered(Commit(canvas, dimensions, colors', TRUE, ribbonColor,
                             grainAmount, verticalStripes, seed))
  /\ ops' = ops + 1
  /\ UNCHANGED call
  /\ UNCHANGED << grainAmount, verticalStripes, ribbonColor, canvasKey,
                  container, dimensions, noise2D >>

\* Home.handleRandomPalette()
handleRandomPalette(n, first, seed) ==
  /\ Mounted /\ ops < MaxOps
  /\ colors' = RandomPalette(n, first)
  /\ Rendered(Commit(canvas, dimensions, colors', TRUE, ribbonColor,
                    grainAmount, verticalStripes, seed))
  /\ ops' = ops + 1
  /\ UNCHANGED call
  /\ UNCHANGED << grainAmount, verticalStripes, ribbonColor, canvasKey,
                  container, dimensions, noise2D >>

\* a ribbon color change that makes a new noise instance under the same key
handleRibbonColorChangeNewNoise(color, seed) ==
  /\ Mounted /\ ops < MaxOps
  /\ ribbonColor' = color
  /\ noise2D' = noise2D + 1
  /\ Rendered(Mount(container, noise2D', colors, ribbonColor', grainAmount,
                   verticalStripes, seed))
  /\ ops' = ops + 1
  /\ UNCHANGED call
  /\ UNCHANGED << colors, grainAmount, verticalStripes, canvasKey, container,
                  dimensions >>

\* Home.handleRibbonColorChange(color)
handleRibbonColorChange(color, seed) ==
  /\ Mounted /\ ops < MaxOps
  /\ ribbonColor' = color
  /\ Rendered(Commit(canvas, dimensions, colors, FALSE, ribbonColor',
                    grainAmount, verticalStripes, seed))
  /\ ops' = ops + 1
  /\ UNCHANGED call
  /\ UNCHANGED << colors, grainAmount, verticalStripes, canvasKey, container,
                  dimensions, noise2D >>

\* the grain slider: setGrainAmount(value)
setGrainAmount(value, seed) ==
  /\ Mounted /\ ops < MaxOps
  /\ grainAmount' = value
  /\ Rendered(Commit(canvas, dimensions, colors, FALSE, ribbonColor,
                    grainAmount', verticalStripes, seed))
  /\ ops' = ops + 1
  /\ UNCHANGED call
  /\ UNCHANGED << colors, verticalStripes, ribbonColor, canvasKey, container,
                  dimensions, noise2D >>

\* the stripe switch: setVerticalStripes(value)
setVerticalStripes(value, seed) ==
  /\ Mounted /\ ops < MaxOps
  /\ verticalStripes' = value
  /\ Rendered(Commit(canvas, dimensions, colors, FALSE, ribbonColor,
                    grainAmount, verticalStripes', seed))
  /\ ops' = ops + 1
  /\ UNCHANGED call
  /\ UNCHANGED << colors, grainAmount, ribbonColor, canvasKey, container,
                  dimensions, noise2D >>

\* GradientCanvas.handleResize on a window resize event, the container
\* having the given size at that moment
handleResize(size, seed) ==
  /\ Mounted /\ ops < MaxOps
  /\ container' = size
  /\ dimensions' = size
  /\ Rendered(Commit(SizedCanvas(size), dimensions', colors, FALSE,
                    ribbonColor, grainAmount, verticalStripes, seed))
  /\ ops' = ops + 1
  /\ UNCHANGED call
  /\ UNCHANGED << colors, grainAmount, verticalStripes, ribbonColor,
                  canvasKey, noise2D >>

\* Home.handleReset(): new palette, grain 0, new key; the GradientCanvas is
\* remounted
handleReset(n, first) ==
  /\ Mounted /\ ops < MaxOps
  /\ colors' = RandomPalette(n, first)
  /\ grainAmount' = 0
  /\ canvasKey' = canvasKey + 1
  /\ noise2D' = noise2D + 1
  /\ dimensions' = container
  /\ Rendered(Mount(container, noise2D', colors', ribbonColor, 0,
                   verticalStripes, 1))
  /\ ops' = ops + 1
  /\ UNCHANGED call
  /\ UNCHANGED << verticalStripes, ribbonColor, container >>

\* 3 + Math.floor(Math.random() * 3) as the model draws it
RandomPaletteSizes == {3, 5}

Next ==
  \/ \E idx \in DOMAIN colors, seed \in Seeds(grainAmount) :
        handleColorChange(idx, Palette[1], seed)
  \/ \E seed \in Seeds(grainAmount) : handleAddColor(seed)
  \/ \E idx \in DOMAIN colors, seed \in Seeds(grainAmount) :
        handleRemoveColor(idx, seed)
  \/ \E n \in RandomPaletteSizes, seed \in Seeds(grainAmount) :
        handleRandomPalette(n, 1, seed)
  \/ \E k \in DOMAIN Palette : handleRibbonColorChange(Palette[k], 1)
  \/ \E value \in GrainAmounts \ {grainAmount} : \E seed \in Seeds(value) :
        setGrainAmount(value, seed)
  \/ \E seed \in Seeds(grainAmount) :
        setVerticalStripes(~verticalStripes, seed)
  \/ \E size \in ContainerSizes, seed \in Seeds(grainAmount) :
        handleResize(size, seed)
  \/ \E n \in RandomPaletteSizes : handleReset(n, 0)

Spec == Init /\ [][Next]_vars

\* ------------------------------------------------------------------------
\* The functions of the canvas applied on their own
\* ------------------------------------------------------------------------
\* The page before anything was laid out: nothing is rendered, and one
\* function of the canvas is applied to arguments of its parameter types.
CallInit ==
  /\ colors = InitialColors
  /\ grainAmount = 0
  /\ verticalStripes = FALSE
  /\ ribbonColor = InitialRibbonColor
  /\ canvasKey = 1
  /\ container = <<0, 0>>
  /\ dimensions = container
  /\ noise2D = 1
  /\ canvas = SizedCanvas(container)
  /\ effect = NoEffect
  /\ ops = 0
  /\ call = NoCall

\* the strings of six hexadecimal digits after the "#"
ValidHex(hex) == Len(hex) = 6 /\ \A k \in 1..6 : hex[k] <= 15

\* strings the props colors and ribbonColor (both of type string) can
\* hold: "#FF4500", "#1E90FF", "#F00", "#GG0000", "#" and "#1G0000"
ColorStrings ==
  { InitialColors[1], Palette[1], <<15, 0, 0>>, <<16, 16, 0, 0, 0, 0>>,
    << >>, <<1, 16, 0, 0, 0, 0>> }

\* hexToRgb(hex): slice and parseInt throw on no string, the triple is
\* returned whatever the string holds
CallHexToRgb(hex) ==
  /\ call = NoCall
  /\ call' = [fn |-> "hexToRgb", hex |-> hex, threw |-> FALSE,
              rgb |-> hexToRgb(hex)]
  /\ UNCHANGED pageVars

\* grain amounts the prop grainAmount (of type number) can hold, in
\* percent: -0.5, 0, 0.5, 1, 1.5 and 2
ReceivedGrainAmounts == {0 - 50, 0, 50, 100, 150, 200}

\* the pixels whose grain is drawn on its own
MaxGrainPixel == 9

\* the grain the main loop draws for pixel p from grainAmount
CallGrain(seed, p, amount) ==
  /\ call = NoCall
  /\ call' = [fn |-> "grain", seed |-> seed, p |-> p,
              grainAmount |-> amount, grain |-> Grain(seed, p, amount)]
  /\ UNCHANGED pageVars

\* longest list of stops interpolated on its own
MaxStops == 4

\* the stops: "#FF4500", "#1E90FF" and "#000000" as hexToRgb returns them
StopColors ==
  { hexToRgb(InitialColors[1]), hexToRgb(Palette[1]),
    hexToRgb(InitialRibbonColor) }

\* the lists of at most MaxStops stops
StopLists ==
  UNION { [1..n -> StopColors] : n \in 0..MaxStops }

\* positions t and glow strengths in [0, 1], milli
Positions == {0, 250, 333, 500, 667, 999, 1000}
Glows == {0, 180, 1000}

\* interpolateMultiColorGlow(colorArr, t, glow)
CallInterpolate(colorArr, t, glow) ==
  /\ call = NoCall
  /\ call' = [fn |-> "interpolateMultiColorGlow", colorArr |-> colorArr,
              t |-> t, glow |-> glow,
              result |-> interpolateMultiColorGlow(colorArr, t, glow)]
  /\ UNCHANGED pageVars

\* the frame whose pixels are shaded on their own
FrameWidth == 168
FrameHeight == 2

\* one iteration of the main loop up to the color of pixel (x, y) of the
\* frame, for the noise instance inst and the ribbon color ribbon over the
\* initial stops: the ribbon fields, bgColor and the color before it is
\* stored
CallPixelColor(x, y, inst, ribbon) ==
  /\ call = NoCall
  /\ call' = [fn |-> "PixelColor", x |-> x, y |-> y, inst |-> inst,
              ribbonColorRgb |-> hexToRgb(ribbon),
              field |-> RibbonField(x, y, FrameWidth, FrameHeight, inst),
              bgColor |->
                interpolateMultiColorGlow(RgbColors(InitialColors),
                  RibbonField(x, y, FrameWidth, FrameHeight, inst).gradT, 180),
              color |-> PixelColor(x, y, FrameWidth, FrameHeight, inst,
                                   RgbColors(InitialColors), hexToRgb(ribbon))]
  /\ UNCHANGED pageVars

\* widest frame whose stripes are laid out on their own
MaxWidth == 392

\* a blur that reads the columns x + bx as they are
BlurReadsUnclamped(x, width) ==
  { x + bx : bx \in (0 - BlurRadius(width)) .. BlurRadius(width) }

\* columns the blur of column x reads: px = Math.max(0, Math.min(width - 1,
\* x + bx)) for bx from -blurRadius to blurRadius
BlurReads(x, width) ==
  { Max(0, Min(width - 1, x + bx)) :
      bx \in (0 - BlurRadius(width)) .. BlurRadius(width) }

\* columns of the gap gapStart .. gapStart + gap - 1 that blurGap blurs:
\* those outside the canvas are passed over
GapColumns(gapStart, width) ==
  { x \in gapStart .. (gapStart + Gap(width) - 1) : ~(x < 0 \/ x >= width) }

\* columns the displacement of a column with the terms c reads from the
\* snapshot: srcX, and reflectX in the two edge zones
SnapshotReads(c) ==
  IF c.reflectX = 0 - 1 THEN { c.srcX } ELSE { c.srcX, c.reflectX }

\* The column indices iteration i of the stripe loop uses in a frame of
\* the given width: columns of data the gap blurs and the band blur read
\* and write, columns of data the compositing writes, and columns of
\* srcData the displacement reads.  Nothing is used when the iteration is
\* skipped.
StripeColumnsUsed(i, width, xStart, xEnd) ==
  IF xEnd <= xStart THEN {}
  ELSE GapColumns(GapStart(i, width), width)
         \cup GapColumns(xEnd, width)
         \cup (xStart .. (xEnd - 1))
         \cup UNION { BlurReads(x, width) :
                        x \in GapColumns(GapStart(i, width), width)
                                \cup GapColumns(xEnd, width)
                                \cup (xStart .. (xEnd - 1)) }
         \cup UNION { SnapshotReads(StripeColumn(x, xStart, xEnd, width)) :
                        x \in xStart .. (xEnd - 1) }

\* iteration i of the stripe loop in a frame of the given width
CallStripe(i, width) ==
  /\ call = NoCall
  /\ call' = [fn |-> "stripe", i |-> i, width |-> width,
              xStart |-> XStart(i, width), xEnd |-> XEnd(i, width),
              columns |-> StripeColumnsUsed(i, width, XStart(i, width),
                                            XEnd(i, width))]
  /\ UNCHANGED pageVars

\* widest frame rendered on its own
MaxRenderWidth == 120

\* each iteration of the stripe loop run on the buffer data of a frame one
\* pixel high, with the snapshot srcData
EachStripe(data, srcData, width) ==
  Stored([i \in 0..(numStripes - 1) |-> Stripe(data, srcData, i, width, 1)])

\* The first render of a canvas mounted in a container width pixels wide
\* and one pixel high, with vertical stripes and without, for the same
\* noise instance, stops, ribbon color, grain amount and random draws; and
\* each iteration of the stripe loop on the buffer of the main loop.
CallMount(width, grain, seed, on, off) ==
  /\ call = NoCall
  /\ call' = [fn |-> "Mount", width |-> width, grainAmount |-> grain,
              seed |-> seed, base |-> on[2].base, on |-> on[1].pixels,
              off |-> off[1].pixels,
              stripe |-> EachStripe(on[2].base, on[2].srcData, width)]
  /\ UNCHANGED pageVars

CallNext ==
  \/ call = NoCall /\ \E hex \in ColorStrings : CallHexToRgb(hex)
  \/ call = NoCall
       /\ \E seed \in 1..MaxGrainSeeds, p \in 0..MaxGrainPixel,
             amount \in ReceivedGrainAmounts : CallGrain(seed, p, amount)
  \/ call = NoCall
       /\ \E colorArr \in StopLists, t \in Positions, glow \in Glows :
             CallInterpolate(colorArr, t, glow)
  \/ call = NoCall
       /\ \E x \in 0..(FrameWidth - 1), y \in 0..(FrameHeight - 1),
             inst \in 1..2, ribbon \in {InitialRibbonColor, Palette[2]} :
             CallPixelColor(x, y, inst, ribbon)
  \/ call = NoCall
       /\ \E i \in 0..(numStripes - 1), width \in 1..MaxWidth :
             CallStripe(i, width)
  \/ call = NoCall
       /\ \E width \in 1..MaxRenderWidth, grain \in GrainAmounts :
            \E seed \in Seeds(grain) :
               CallMount(width, grain, seed,
                  Mount(<<1000 * width, 1000>>, 1, InitialColors,
                        InitialRibbonColor, grain, TRUE, seed),
                  Mount(<<1000 * width, 1000>>, 1, InitialColors,
                        InitialRibbonColor, grain, FALSE, seed))

CallSpec == CallInit /\ [][CallNext]_vars

\* ------------------------------------------------------------------------
\* Properties
\* ------------------------------------------------------------------------
\* the canvas shows what the last run of the render effect put on it
Shown ==
  /\ effect.runs > 0
  /\ canvas.width > 0 /\ canvas.height > 0
  /\ canvas.pixels # Blank(canvas.width, canvas.height)

\* C1: in every render with vertical stripes the snapshot the displacement
\* and the reflection sample is a copy of the buffer the base pass of that
\* render produced.
C1_SnapshotIsBaseOfSameRender ==
  effect.stripes => effect.srcData = effect.base

\* C2: after any sequence of parameter changes the buffer presented is the
\* one computed from the current parameters, the ribbon color included.
C2_RenderedFromCurrentParameters ==
  (canvas.width > 0 /\ canvas.height > 0) =>
     /\ effect.runs > 0
     /\ effect.base = BasePass(canvas.width, canvas.height, noise2D,
                               RgbColors(colors), hexToRgb(ribbonColor))

\* C3: with a container of at least one pixel each way, the canvas holds
\* a fully populated (opaque) buffer for the current dimensions after
\* every handler, a resize that reports the same size included.
C3_ResizeLeavesPopulatedBuffer ==
  (container[1] >= 1000 /\ container[2] >= 1000) =>
     /\ canvas.width = container[1] \div 1000
     /\ canvas.height = container[2] \div 1000
     /\ \A p \in DOMAIN canvas.pixels : canvas.pixels[p][4] = 255

\* the columns of the left gap of stripe i
LeftGap(i, width) ==
  GapStart(i, width) .. (GapStart(i, width) + Gap(width) - 1)

\* C4: no step of the stripe pass reads the buffer the pass writes; for the
\* gap blur: every pixel of the left gap of a stripe is the blur of the
\* pixels the buffer held before the pass began.
C4_GapBlurSamplesSnapshot ==
  effect.stripes =>
    \A i \in 0 .. (numStripes - 1) :
      XEnd(i, effect.width) > XStart(i, effect.width) =>
        \A x \in LeftGap(i, effect.width), y \in 0 .. (effect.height - 1) :
          effect.striped[y * effect.width + x]
            = BlurPixel(effect.base, x, y, effect.width,
                        BlurRadius(effect.width))

\* the stripes last to first
ReverseOrder == [k \in 1..numStripes |-> numStripes - k]

\* C5: the stripes are independent: processed last to first they leave the
\* buffer the loop of the render left.
C5_StripeOrderIrrelevant ==
  effect.stripes =>
    StripeLoop(effect.base, effect.srcData, ReverseOrder, numStripes,
               effect.width, effect.height) = effect.striped

\* C6: the grain drawn in the base pass is only buffered there (the buffer
\* after the base pass is the grain-free one), the stripe pass works on
\* that buffer, and what is presented is the result of every other pass
\* with the grain added.
C6_GrainAfterEveryOtherPass ==
  Shown =>
    /\ effect.base = BasePass(effect.width, effect.height, noise2D,
                              RgbColors(colors), effect.ribbonColorRgb)
    /\ effect.striped =
         IF effect.stripes
         THEN StripePass(effect.base, effect.srcData, effect.width,
                         effect.height)
         ELSE effect.base
    /\ canvas.pixels = GrainPass(effect.striped, effect.grainMap)

C6_Witness ==
  /\ Shown /\ effect.stripes /\ grainAmount > 0
  /\ effect.striped # effect.base
  /\ canvas.pixels # effect.striped

\* C7: with grainAmount 0 the grain pass leaves every byte as it was
\* before it, with stripes and without.
C7_ZeroGrainIsIdentity ==
  (Shown /\ grainAmount = 0) => canvas.pixels = effect.striped

C7_Witness ==
  /\ Shown /\ grainAmount = 0 /\ effect.stripes
  /\ effect.striped # effect.base
  /\ effect.runs >= 2

\* the deviation of channel k of pixel p from the grain-off result
Deviation(p, k) == canvas.pixels[p][k] - effect.striped[p][k]

\* C8 as stated: the deviation from the grain-off result is the same for
\* R, G and B of every pixel.
C8_DeviationSameOnEveryChannel ==
  (Shown /\ grainAmount > 0) =>
    \A p \in DOMAIN canvas.pixels :
      Deviation(p, 1) = Deviation(p, 2) /\ Deviation(p, 2) = Deviation(p, 3)

\* C8 amended: the deviation is the same for the channels of a pixel that
\* end strictly between 0 and 255; a grain whose fraction is exactly one
\* half is rounded to the even byte and may put them 1 apart.
C8_DeviationSameOnUnclampedChannels ==
  (Shown /\ grainAmount > 0) =>
    \A p \in DOMAIN canvas.pixels : \A j, k \in 1..3 :
      (canvas.pixels[p][j] \in 1..254 /\ canvas.pixels[p][k] \in 1..254) =>
         IF effect.grainMap[p] % 1000 = 500
         THEN Abs(Deviation(p, j) - Deviation(p, k)) <= 1
         ELSE Deviation(p, j) = Deviation(p, k)

C8_Witness ==
  /\ Shown /\ grainAmount > 0
  /\ \E p \in DOMAIN canvas.pixels :
        /\ \A k \in 1..3 : canvas.pixels[p][k] \in 1..254
        /\ Deviation(p, 1) # 0
        /\ effect.grainMap[p] % 1000 # 500
  /\ \E p \in DOMAIN canvas.pixels : Deviation(p, 1) # Deviation(p, 2)

\* C9: with grain 0 and stripes off the buffer presented is a function of
\* the color stops, the ribbon color, the dimensions and the noise
\* instance alone: whatever was rendered before, rendering with the same
\* inputs gives the same bytes.
C9_Deterministic ==
  (Shown /\ grainAmount = 0 /\ ~effect.stripes) =>
    canvas.pixels = BasePass(canvas.width, canvas.height, noise2D,
                             RgbColors(colors), effect.ribbonColorRgb)

C9_Witness ==
  /\ Shown /\ grainAmount = 0 /\ ~effect.stripes
  /\ effect.runs >= 3

\* C10: the noise instance changes in no step but a reset, which remounts
\* the canvas under a new key.
C10_NoiseInstanceKept ==
  [][noise2D' # noise2D =>
       /\ canvasKey' # canvasKey
       /\ \E n \in RandomPaletteSizes : handleReset(n, 0)]_vars

C10_Witness ==
  /\ noise2D = 2
  /\ effect.runs >= 2

\* C11: when the width or the height of the canvas is 0 the render is a
\* no-op and raises no fault.
C11_NoFaultWithoutPixels ==
  (canvas.width = 0 \/ canvas.height = 0) => ~effect.fault

\* C12: a color string that is not six hexadecimal digits fails in
\* hexToRgb and is never returned as an RGB triple.
C12_InvalidColorFails ==
  (call.fn = "hexToRgb" /\ ~ValidHex(call.hex)) => call.threw

\* C13: whatever grainAmount the render receives, the grain of a pixel has
\* magnitude at most 25.
C13_GrainAtMost25 ==
  call.fn = "grain" => Abs(call.grain) <= 25000

\* the reference interpolation: position = t (N - 1), segment =
\* floor(position) clamped to [0, N - 2], fraction = position - segment
RefSegment(n, t) == Max(0, Min(n - 2, (t * (n - 1)) \div 1000))
RefFraction(n, t) == t * (n - 1) - 1000 * RefSegment(n, t)
RefBump(fraction, glow) ==
  (ExpNeg(((4 * (fraction - 500)) * (4 * (fraction - 500))) \div 1000)
     * glow * 255) \div 1000
RefChannel(a, b, fraction, glow) ==
  Min(255000, a * (1000 - fraction) + b * fraction + RefBump(fraction, glow))
RefInterpolate(colorArr, t, glow) ==
  LET n == Len(colorArr)
      a == colorArr[RefSegment(n, t) + 1]
      b == colorArr[RefSegment(n, t) + 2]
      f == RefFraction(n, t)
  IN  IF n = 0 THEN <<0, 0, 0>>
      ELSE IF n = 1
      THEN << 1000 * colorArr[1][1], 1000 * colorArr[1][2],
              1000 * colorArr[1][3] >>
      ELSE << RefChannel(a[1], b[1], f, glow), RefChannel(a[2], b[2], f, glow),
              RefChannel(a[3], b[3], f, glow) >>

\* C14: interpolateMultiColorGlow returns what the reference interpolation
\* returns for every list of stops and every t in [0, 1]; for two stops or
\* more t = 0 is fraction 0 of the first segment and t = 1 fraction 1 of
\* the last segment, and the two stops read are in the list.
C14_InterpolationIsReference ==
  call.fn = "interpolateMultiColorGlow" =>
    /\ call.result = RefInterpolate(call.colorArr, call.t, call.glow)
    /\ Len(call.colorArr) >= 2 =>
         /\ RefSegment(Len(call.colorArr), call.t) + 2 <= Len(call.colorArr)
         /\ call.t = 0 =>
              /\ RefSegment(Len(call.colorArr), 0) = 0
              /\ RefFraction(Len(call.colorArr), 0) = 0
         /\ call.t = 1000 =>
              /\ RefSegment(Len(call.colorArr), 1000) = Len(call.colorArr) - 2
              /\ RefFraction(Len(call.colorArr), 1000) = 1000

\* t = 1 on a list of three stops or more whose last two stops differ
C14_Witness ==
  /\ call.fn = "interpolateMultiColorGlow"
  /\ Len(call.colorArr) >= 3
  /\ call.t = 1000
  /\ call.colorArr[Len(call.colorArr)] # call.colorArr[Len(call.colorArr) - 1]
  /\ call.result = << 1000 * call.colorArr[Len(call.colorArr)][1],
                      1000 * call.colorArr[Len(call.colorArr)][2],
                      1000 * call.colorArr[Len(call.colorArr)][3] >>

\* every pixel of the buffer data has alpha 255
Opaque(data) == \A p \in DOMAIN data : data[p][4] = 255

\* C15: after a render every pixel of the frame buffer has alpha 255: as
\* the base pass left it, after the stripe loop, and after the grain as put
\* on the canvas, with and without stripes and for every grain amount.
C15_FrameBufferOpaque ==
  effect.runs > 0 =>
    /\ Opaque(effect.base)
    /\ Opaque(effect.striped)
    /\ Shown => Opaque(canvas.pixels)

\* a render with stripes and grain whose stripe loop changed the buffer
C15_Witness ==
  /\ Shown
  /\ effect.stripes
  /\ effect.striped # effect.base
  /\ \E p \in DOMAIN effect.grainMap : effect.grainMap[p] # 0

\* a request to remove a stop
RemoveRequest ==
  \E idx \in DOMAIN colors, seed \in Seeds(grainAmount) :
     handleRemoveColor(idx, seed)

\* C16: the list of color stops handed to the canvas always has two stops
\* or more, and a request to remove a stop of a list of two stops leaves
\* the list as it is.
C16_AtLeastTwoStops ==
  /\ Len(colors) >= 2
  /\ [][ /\ Len(colors') >= 2
         /\ (Len(colors) = 2 /\ RemoveRequest) => colors' = colors ]_vars

\* a list brought down to two stops, after which another handler ran
C16_Witness ==
  /\ Len(colors) = 2
  /\ ops >= 2

\* the pixel shaded is covered by a branch: its occupancy is above that of
\* the main band alone
BranchCovered ==
  /\ call.fn = "PixelColor"
  /\ call.field.ribbon > ExpNeg(call.field.mainDist * 32)

\* channel k of the pixel shaded is the background with the ribbon color at
\* weight w over it, plus the highlight, up to 0.3 of a color step (the
\* weights are carried in thousandths)
RibbonWeightIs(w, k) ==
  Abs(call.color[k]
      - Min(255000, (call.bgColor[k] * (1000 - w)
                       + 1000 * call.ribbonColorRgb[k] * w) \div 1000
                     + call.field.highlight)) <= 300

\* C17 as stated: at a pixel covered by a branch the weight of the ribbon
\* color in the final color is the occupancy, not reduced by the fade.
C17_BranchAtFullStrength ==
  BranchCovered => \A k \in 1..3 : RibbonWeightIs(call.field.ribbon, k)

\* C17: the fade depends on the distance to the main ribbon only, and at
\* every pixel, those covered by a branch included, the weight of the
\* ribbon color in the final color is the occupancy times the fade.
C17_RibbonWeightIsOccupancyTimesFade ==
  call.fn = "PixelColor" =>
    /\ call.field.fade = ExpNeg(call.field.mainDist * 12)
    /\ \A k \in 1..3 :
         RibbonWeightIs((call.field.ribbon * call.field.fade) \div 1000, k)

\* a pixel covered by a branch, away from the main ribbon, whose color is
\* far from the one the occupancy alone would give
C17_Witness ==
  /\ BranchCovered
  /\ call.field.fade <= 700
  /\ call.field.ribbon >= 300
  /\ \E k \in 1..3 : ~RibbonWeightIs(call.field.ribbon, k)

\* C18: every column index an iteration of the stripe loop uses, to read
\* the snapshot or to read or write the working buffer, is one of
\* 0 .. width - 1.
C18_StripeColumnsInFrame ==
  call.fn = "stripe" => call.columns \subseteq 0 .. (call.width - 1)

\* the last stripe of a frame wide enough for its gap to be 3 columns: it
\* uses the last column of the frame
C18_Witness ==
  /\ call.fn = "stripe"
  /\ call.i = numStripes - 1
  /\ call.xEnd > call.xStart
  /\ Gap(call.width) = 3
  /\ (call.width - 1) \in call.columns

\* the stripes of a frame of the given width that have no column
EmptyStripes(width) ==
  { i \in 0..(numStripes - 1) : XEnd(i, width) <= XStart(i, width) }

\* C19: an iteration of the stripe loop whose stripe has no column leaves
\* the buffer as it was, gaps included; in a frame of 112 pixels or fewer
\* no stripe has a column, and the render with vertical stripes puts the
\* same pixels on the canvas as the same render without.
C19_EmptyStripesSkipped ==
  call.fn = "Mount" =>
    /\ \A i \in EmptyStripes(call.width) : call.stripe[i] = call.base
    /\ call.width <= 112 =>
         /\ EmptyStripes(call.width) = 0..(numStripes - 1)
         /\ call.on = call.off

\* a frame of 112 pixels rendered with grain
C19_Witness ==
  /\ call.fn = "Mount"
  /\ call.width = 112
  /\ call.grainAmount > 0
  /\ call.on = call.off
  /\ call.on # call.base

====
